---- MODULE Spec2Model ----
(***************************************************************************)
(* A model of combine_metadata.py: pairing media files with Google Takeout *)
(* JSON sidecars, flattening the JSON, deriving the best timestamp,        *)
(* embedding metadata per pair and building the CSV manifest.              *)
(*                                                                         *)
(* File names are sequences of tokens.  "." and "/" are tokens of their    *)
(* own, so that endswith, split('.', 1), os.path.splitext and the          *)
(* '_withmeta' tests are computed on the text as the code computes them.   *)
(***************************************************************************)
EXTENDS Integers, Sequences, FiniteSets, TLC

VARIABLES
  pc,                \* position of the run
  listing,           \* os.listdir(directory): the entries in listing order
  idx,               \* number of listing entries find_image_json_pairs has scanned
  pairs,             \* find_image_json_pairs: pairs
  missing_metadata,  \* find_image_json_pairs: missing_metadata
  cross_probes,      \* os.path.exists calls made by the cross-reference loop
  base_to_files,     \* create_csv_manifest: the groups, in order of discovery
  midx,              \* create_csv_manifest: number of files grouped
  gidx,              \* create_csv_manifest: number of groups turned into rows
  fidx,              \* create_csv_manifest: number of files of the group looked at
  manifest,          \* create_csv_manifest: the manifest dict of the group in hand
  rows,              \* create_csv_manifest: the rows written to manifest.csv
  y,                 \* flatten_json: the parsed JSON object
  flat,              \* flatten_json: the flat mapping returned
  flat_metadata,     \* the flat metadata of the pair in hand
  best_sites,        \* best_timestamp as computed at each of its call sites
  sidecar_content,   \* what each sidecar file of the directory holds
  fs_create,         \* the file-system (Finder) creation date of each path
  exif_dto,          \* the EXIF:DateTimeOriginal tag of each path
  pi,                \* main: index in pairs of the pair in hand
  attempted,         \* main: the pairs whose processing has begun, in order
  errors,            \* main: the pairs logged as failed
  writes             \* every write of the run: pair, file, sink, date written

scanVars == <<listing, idx, pairs, missing_metadata, cross_probes>>
jsonVars == <<y, flat>>
bestVars == <<flat_metadata, best_sites>>

mainVars == <<sidecar_content, fs_create, exif_dto, pi, attempted, errors, writes>>

manifestVars == <<base_to_files, midx, gidx, fidx, manifest, rows>>

vars == <<pc, scanVars, manifestVars, jsonVars, bestVars, mainVars>>

(***************************************************************************)
(* Bounds                                                                  *)
(***************************************************************************)
MaxFiles == 3        \* entries in a scanned directory
MaxDepth == 1        \* nesting depth of the objects inside a JSON object
NVals == 2           \* distinct scalar values in a JSON object
MaxMainFiles == 3    \* entries in a directory handed to main

(***************************************************************************)
(* Text primitives                                                         *)
(***************************************************************************)
None == "None"       \* Python's None
NoSidecar == <<>>    \* no sidecar path found

Range(s) == {s[i] : i \in DOMAIN s}

\* str.lower() on one token
LowerTok(t) ==
  CASE t = "JPG" -> "jpg"
    [] t = "MOV" -> "mov"
    [] t = "MP4" -> "mp4"
    [] OTHER -> t

\* str.lower()
Lower(s) == [i \in DOMAIN s |-> LowerTok(s[i])]

\* str.endswith(suf)
EndsWith(s, suf) ==
  /\ Len(s) >= Len(suf)
  /\ SubSeq(s, Len(s) - Len(suf) + 1, Len(s)) = suf

\* positions of token t in s
Positions(s, t) == {i \in DOMAIN s : s[i] = t}

Max(S) == CHOOSE m \in S : \A n \in S : n <= m
Min(S) == CHOOSE m \in S : \A n \in S : m <= n

\* file.split('.', 1)[0]: the text before the first '.'
SplitFirstDot(file) ==
  IF Positions(file, ".") = {} THEN file
  ELSE SubSeq(file, 1, Min(Positions(file, ".")) - 1)

\* os.path.splitext(p): <<root, ext>>.  The extension starts at the last '.'
\* of the last path component, unless only '.' precede it in that component.
SplitExt(p) ==
  LET sepIndex == IF Positions(p, "/") = {} THEN 0 ELSE Max(Positions(p, "/"))
      dotIndex == IF Positions(p, ".") = {} THEN 0 ELSE Max(Positions(p, "."))
  IN IF /\ dotIndex > sepIndex
        /\ \E k \in (sepIndex + 1)..(dotIndex - 1) : p[k] # "."
     THEN <<SubSeq(p, 1, dotIndex - 1), SubSeq(p, dotIndex, Len(p))>>
     ELSE <<p, <<>>>>

\* the directory given on the command line
Directory == <<"d", ".", "v">>

\* os.path.join(directory, file)
Join(file) == Directory \o <<"/">> \o file

\* os.path.basename(path)
Basename(p) ==
  IF Positions(p, "/") = {} THEN p
  ELSE SubSeq(p, Max(Positions(p, "/")) + 1, Len(p))

(***************************************************************************)
(* find_image_json_pairs                                                   *)
(***************************************************************************)
SUPPORTED_EXTENSIONS ==
  << <<".", "jpg">>, <<".", "jpeg">>, <<".", "png">>, <<"heic">>,
     <<".", "mp4">>, <<".", "mov">> >>

image_exts == << <<".", "jpg">>, <<".", "jpeg">>, <<".", "png">>, <<".", "heic">> >>

SupplementalMetadata == <<".", "supplemental-metadata", ".", "json">>
Suppl == <<".", "suppl", ".", "json">>

\* os.path.exists(path), for a path inside the directory
Exists(path) == \E g \in Range(listing) : Join(g) = path

\* line 20: any(file.lower().endswith(ext) for ext in SUPPORTED_EXTENSIONS)
IsSupportedBySplitExt(file) ==
  Lower(SplitExt(file)[2]) \in Range(SUPPORTED_EXTENSIONS)

IsSupported(file) ==
  \E i \in DOMAIN SUPPORTED_EXTENSIONS : EndsWith(Lower(file), SUPPORTED_EXTENSIONS[i])

\* lines 25-28: the direct sidecar of image_path, NoSidecar when there is none
DirectSidecarSecondFirst(image_path) ==
  IF Exists(image_path \o Suppl) THEN image_path \o Suppl
  ELSE IF Exists(image_path \o SupplementalMetadata)
       THEN image_path \o SupplementalMetadata
       ELSE NoSidecar

DirectSidecar(image_path) ==
  IF Exists(image_path \o SupplementalMetadata) THEN image_path \o SupplementalMetadata
  ELSE IF Exists(image_path \o Suppl) THEN image_path \o Suppl
  ELSE NoSidecar

\* line 34: ext in ['.mp4', '.mov'], ext the lower-cased splitext extension
IsVideoExt(ext) == Lower(ext) \in {<<".", "mp4">>, <<".", "mov">>}

\* lines 35-38: the candidate sidecars of the sibling images, in probe order
CrossCandidates(base) ==
  [k \in 1..(2 * Len(image_exts)) |->
     LET img_file == base \o image_exts[(k + 1) \div 2]
     IN IF k % 2 = 1 THEN Join(img_file \o SupplementalMetadata)
                     ELSE Join(img_file \o Suppl)]

\* lines 39-46: index of the first candidate that exists, 0 when none does
LastHit(cands) ==
  IF \E k \in DOMAIN cands : Exists(cands[k])
  THEN Max({k \in DOMAIN cands : Exists(cands[k])})
  ELSE 0

FirstHit(cands) ==
  IF \E k \in DOMAIN cands : Exists(cands[k])
  THEN Min({k \in DOMAIN cands : Exists(cands[k])})
  ELSE 0

\* lines 29-48: the cross-reference of a file without a direct sidecar:
\* the sidecar found (NoSidecar when none) and the candidates probed
CrossReferenceAnyFile(file) ==
  LET cands == CrossCandidates(SplitFirstDot(file))
      hit == FirstHit(cands)
  IN [json |-> IF hit = 0 THEN NoSidecar ELSE cands[hit],
      probed |-> IF hit = 0 THEN cands ELSE SubSeq(cands, 1, hit)]

CrossReference(file) ==
  IF IsVideoExt(SplitExt(file)[2])
  THEN LET cands == CrossCandidates(SplitFirstDot(file))
           hit == FirstHit(cands)
       IN [json |-> IF hit = 0 THEN NoSidecar ELSE cands[hit],
           probed |-> IF hit = 0 THEN cands ELSE SubSeq(cands, 1, hit)]
  ELSE [json |-> NoSidecar, probed |-> <<>>]

\* lines 19-48: one iteration of the loop over os.listdir(directory)
ScanEntry ==
  /\ pc = "scan"
  /\ idx < Len(listing)
  /\ LET file == listing[idx + 1]
         image_path == Join(file)
         direct == DirectSidecar(image_path)
         cross == CrossReference(file)
     IN IF ~IsSupported(file)
        THEN UNCHANGED <<pairs, missing_metadata, cross_probes>>
        ELSE IF direct # NoSidecar
        THEN /\ pairs' = Append(pairs, <<image_path, direct>>)
             /\ UNCHANGED <<missing_metadata, cross_probes>>
        ELSE /\ cross_probes' = cross_probes \cup
                  {<<file, cross.probed[k]>> : k \in DOMAIN cross.probed}
             /\ IF cross.json # NoSidecar
                THEN /\ pairs' = Append(pairs, <<image_path, cross.json>>)
                     /\ UNCHANGED missing_metadata
                ELSE /\ missing_metadata' = Append(missing_metadata, image_path)
                     /\ UNCHANGED pairs
  /\ idx' = idx + 1
  /\ UNCHANGED <<pc, listing, manifestVars, jsonVars, bestVars, mainVars>>

\* line 49: return pairs, missing_metadata
ScanReturn ==
  /\ pc = "scan"
  /\ idx = Len(listing)
  /\ pc' = "scanned"
  /\ UNCHANGED <<scanVars, manifestVars, jsonVars, bestVars, mainVars>>

\* the entries a scanned directory may hold
PairNames ==
  LET a == <<"a">>
      media == {a \o <<".", "jpg">>, a \o <<".", "heic">>, a \o <<"heic">>,
                a \o <<".", "mp4">>, a \o <<".", "MOV">>,
                a \o <<".", "b", ".", "mp4">>, <<".", "mp4">>,
                a \o <<".", "txt">>}
      hosts == {a \o <<".", "jpg">>, a \o <<".", "png">>, a \o <<".", "heic">>,
                a \o <<".", "mp4">>, <<".", "jpg">>}
  IN media \cup {h \o SupplementalMetadata : h \in hosts}
           \cup {h \o Suppl : h \in hosts}

\* the listings of at most n distinct entries of S, in any order
ListingsOf(S, n) ==
  UNION {{s \in [1..k -> S] : \A i, j \in 1..k : i # j => s[i] # s[j]} : k \in 0..n}

\* the variables of find_image_json_pairs before it has run
ScanIdle ==
  /\ idx = 0
  /\ pairs = <<>>
  /\ missing_metadata = <<>>
  /\ cross_probes = {}

\* the variables of create_csv_manifest before it has run
ManifestIdle ==
  /\ base_to_files = <<>>
  /\ midx = 0
  /\ gidx = 0
  /\ fidx = 0
  /\ manifest = [base_name |-> <<>>, image |-> <<>>, video |-> <<>>,
                 video_withmeta |-> <<>>, metadata |-> <<>>]
  /\ rows = <<>>

\* the variables of the JSON flattener and of the timestamps, unused
JsonIdle == y = None /\ flat = None
BestIdle == flat_metadata = None /\ best_sites = <<>>

\* the variables of main, unused
MainIdle ==
  /\ sidecar_content = <<>>
  /\ fs_create = <<>>
  /\ exif_dto = <<>>
  /\ pi = 0
  /\ attempted = <<>>
  /\ errors = <<>>
  /\ writes = {}

InitPairs ==
  /\ pc = "scan"
  /\ listing \in ListingsOf(PairNames, MaxFiles)
  /\ ScanIdle
  /\ ManifestIdle
  /\ JsonIdle
  /\ BestIdle
  /\ MainIdle

NextPairs == ScanEntry \/ ScanReturn

SpecPairs == InitPairs /\ [][NextPairs]_vars

(***************************************************************************)
(* create_csv_manifest                                                     *)
(***************************************************************************)
WithMeta == <<"_withmeta">>

\* lines 166-168: the text before the first '.', a trailing '_withmeta' removed
ManifestBase(f) ==
  LET base == SplitFirstDot(f)
  IN IF EndsWith(base, WithMeta)
     THEN SubSeq(base, 1, Len(base) - Len(WithMeta))
     ELSE base

\* '_withmeta' in f
HasWithMeta(f) == Positions(f, "_withmeta") # {}

\* lines 182-190: the slot the if/elif chain assigns f to, "" when none
Slot(f) ==
  LET ext == Lower(SplitExt(f)[2])
  IN IF ext \in {<<".", "jpg">>, <<".", "jpeg">>, <<".", "png">>, <<".", "heic">>}
       THEN "image"
     ELSE IF ext \in {<<".", "mp4">>, <<".", "mov">>} /\ ~HasWithMeta(f)
       THEN "video"
     ELSE IF ext = <<".", "mp4">> /\ HasWithMeta(f)
       THEN "video_withmeta"
     ELSE IF EndsWith(f, SupplementalMetadata) \/ EndsWith(f, Suppl)
       THEN "metadata"
     ELSE ""

\* lines 174-180: the manifest dict of a group before its files are looked at
NewManifest(base) ==
  [base_name |-> base,
   image |-> <<>>,
   video |-> <<>>,
   video_withmeta |-> <<>>,
   metadata |-> <<>>]

\* lines 182-190: manifest[slot] = f, nothing when no branch of the chain is taken
SetSlotKeepFirst(m, slot, f) ==
  IF slot = "" \/ m[slot] # <<>> THEN m ELSE [m EXCEPT ![slot] = f]

SetSlot(m, slot, f) ==
  IF slot = "" THEN m ELSE [m EXCEPT ![slot] = f]

\* line 191: any([image, video, video_withmeta, metadata])
AnySlot(m) ==
  m.image # <<>> \/ m.video # <<>> \/ m.video_withmeta # <<>> \/ m.metadata # <<>>

\* lines 165-171: one iteration of the loop that groups the files
GroupFile ==
  /\ pc = "manifest"
  /\ midx < Len(listing)
  /\ \E f \in {listing[midx + 1]} :
       \E base \in {ManifestBase(f)} :
         IF \E g \in DOMAIN base_to_files : base_to_files[g].base = base
         THEN base_to_files' =
                [g \in DOMAIN base_to_files |->
                   IF base_to_files[g].base = base
                   THEN [base |-> base, files |-> Append(base_to_files[g].files, f)]
                   ELSE base_to_files[g]]
         ELSE base_to_files' = Append(base_to_files, [base |-> base, files |-> <<f>>])
  /\ midx' = midx + 1
  /\ UNCHANGED <<pc, gidx, fidx, manifest, rows, scanVars, jsonVars, bestVars, mainVars>>

\* lines 173-190: one iteration of the loop over the files of a group; the
\* first one starts from the new manifest dict of the group
AssignSlot ==
  /\ pc = "manifest"
  /\ midx = Len(listing)
  /\ gidx < Len(base_to_files)
  /\ fidx < Len(base_to_files[gidx + 1].files)
  /\ \E f \in {base_to_files[gidx + 1].files[fidx + 1]} :
       \E slot \in {Slot(f)} :
         manifest' = SetSlot(IF fidx = 0
                             THEN NewManifest(base_to_files[gidx + 1].base)
                             ELSE manifest,
                             slot, f)
  /\ fidx' = fidx + 1
  /\ UNCHANGED <<pc, midx, gidx, base_to_files, rows>>
  /\ UNCHANGED <<scanVars, jsonVars, bestVars, mainVars>>

\* lines 191-192: the group's manifest becomes a row when a slot is filled
BuildRow ==
  /\ pc = "manifest"
  /\ midx = Len(listing)
  /\ gidx < Len(base_to_files)
  /\ fidx = Len(base_to_files[gidx + 1].files)
  /\ rows' = IF AnySlot(manifest) THEN Append(rows, manifest) ELSE rows
  /\ gidx' = gidx + 1
  /\ fidx' = 0
  /\ UNCHANGED <<pc, midx, base_to_files, manifest>>
  /\ UNCHANGED <<scanVars, jsonVars, bestVars, mainVars>>

\* lines 193-200: manifest.csv is written
WriteCsv ==
  /\ pc = "manifest"
  /\ midx = Len(listing)
  /\ gidx = Len(base_to_files)
  /\ pc' = "done"
  /\ UNCHANGED <<manifestVars, scanVars, jsonVars, bestVars, mainVars>>

\* lines 161-200: create_csv_manifest(directory)
CreateCsvManifest == GroupFile \/ AssignSlot \/ BuildRow \/ WriteCsv

\* the entries a directory handed to create_csv_manifest may hold
ManifestNames ==
  LET a == <<"a">>
  IN {a \o <<".", "jpg">>, a \o <<".", "png">>, a \o <<".", "mp4">>,
      a \o <<".", "MOV">>, a \o <<".", "b", ".", "mp4">>,
      a \o WithMeta \o <<".", "mp4">>, a \o WithMeta \o <<".", "mov">>,
      a \o WithMeta \o <<".", "jpg">>,
      a \o <<".", "jpg">> \o SupplementalMetadata, a \o <<".", "mp4">> \o Suppl,
      <<"b", ".", "jpg">>, <<"manifest", ".", "csv">>, <<".", "mp4">>}

InitManifest ==
  /\ pc = "manifest"
  /\ listing \in ListingsOf(ManifestNames, MaxFiles)
  /\ ScanIdle
  /\ ManifestIdle
  /\ JsonIdle
  /\ BestIdle
  /\ MainIdle

NextManifest == GroupFile \/ AssignSlot \/ BuildRow \/ WriteCsv

SpecManifest == InitManifest /\ [][NextManifest]_vars

(***************************************************************************)
(* flatten_json                                                            *)
(*                                                                         *)
(* A JSON object is a function from keys to nodes; a node is               *)
(* <<"leaf", v>> for a non-dict value v and <<"obj", o>> for a dict o.     *)
(* The keys drawn hold no '_', so distinct leaf paths have distinct flat   *)
(* keys and the order of out.update does not matter.                       *)
(***************************************************************************)
Keys == {<<"a">>, <<"b">>}

ScalarList == <<"s:x", "i:1", "s:", "true", "None">>
Scalars == {ScalarList[i] : i \in 1..NVals}

ObjectsOver(nodes) == UNION {[D -> nodes] : D \in SUBSET Keys}

RECURSIVE JsonObjects(_)
JsonObjects(d) ==
  ObjectsOver({<<"leaf", v>> : v \in Scalars} \cup
              (IF d = 0 THEN {} ELSE {<<"obj", o>> : o \in JsonObjects(d - 1)}))

\* isinstance(v, dict)
IsDict(node) == node[1] = "obj"

\* the mapping holding the entries <<key, value>>
DictOf(entries) ==
  [k \in {e[1] : e \in entries} |-> (CHOOSE e \in entries : e[1] = k)[2]]

Items(d) == {<<k, d[k]>> : k \in DOMAIN d}

\* lines 51-58: flatten_json(y, prefix)
RECURSIVE FlattenDropPrefix(_, _)
FlattenDropPrefix(obj, prefix) ==
  DictOf({<<k, obj[k][2]>> : k \in {k \in DOMAIN obj : ~IsDict(obj[k])}}
         \cup UNION {Items(FlattenDropPrefix(obj[k][2], prefix \o k \o <<"_">>)) :
                       k \in {k \in DOMAIN obj : IsDict(obj[k])}})

RECURSIVE flatten_json(_, _)
flatten_json(obj, prefix) ==
  DictOf({<<prefix \o k, obj[k][2]>> : k \in {k \in DOMAIN obj : ~IsDict(obj[k])}}
         \cup UNION {Items(flatten_json(obj[k][2], prefix \o k \o <<"_">>)) :
                       k \in {k \in DOMAIN obj : IsDict(obj[k])}})

\* flat = flatten_json(y)
FlattenJson ==
  /\ pc = "json"
  /\ flat' = flatten_json(y, <<>>)
  /\ pc' = "flattened"
  /\ UNCHANGED <<scanVars, manifestVars, y, bestVars, mainVars>>

InitFlatten ==
  /\ pc = "json"
  /\ y \in JsonObjects(MaxDepth)
  /\ flat = None
  /\ listing = <<>>
  /\ ScanIdle
  /\ ManifestIdle
  /\ BestIdle
  /\ MainIdle

NextFlatten == FlattenJson

SpecFlatten == InitFlatten /\ [][NextFlatten]_vars

(***************************************************************************)
(* best_timestamp                                                          *)
(***************************************************************************)
photoTakenTime_timestamp == <<"photoTakenTime", "_", "timestamp">>
creationTime_timestamp == <<"creationTime", "_", "timestamp">>

\* the values a timestamp field of a sidecar may hold: JSON strings ("s:"),
\* JSON numbers ("i:") and null
TimestampValues == {"s:1000", "s:2000", "s:", "i:0", None}

\* bool(v)
Truthy(v) == v \notin {None, "s:", "i:0", "false"}

\* a or b
Or(a, b) == IF Truthy(a) THEN a ELSE b

\* d.get(k)
Get(d, k) == IF k \in DOMAIN d THEN d[k] ELSE None

\* lines 62-64: best_timestamp in map_json_to_exif_xmp
BestMapJson(flat_md) ==
  LET photo_taken_timestamp == Get(flat_md, photoTakenTime_timestamp)
      creation_timestamp == Get(flat_md, creationTime_timestamp)
  IN Or(photo_taken_timestamp, creation_timestamp)

\* lines 130-132: best_timestamp in embed_metadata_ffmpeg
BestFfmpegCreationFirst(metadata) ==
  Or(Get(metadata, creationTime_timestamp), Get(metadata, photoTakenTime_timestamp))

BestFfmpeg(metadata) ==
  LET photo_taken_timestamp == Get(metadata, photoTakenTime_timestamp)
      creation_timestamp == Get(metadata, creationTime_timestamp)
  IN Or(photo_taken_timestamp, creation_timestamp)

\* line 285: best_timestamp in main
BestMain(flat_md) ==
  Or(Get(flat_md, photoTakenTime_timestamp), Get(flat_md, creationTime_timestamp))

SetSite(site, v) ==
  [s \in DOMAIN best_sites \cup {site} |-> IF s = site THEN v ELSE best_sites[s]]

\* map_json_to_exif_xmp computes best_timestamp
MapJsonComputesBest ==
  /\ pc = "best"
  /\ "map_json_to_exif_xmp" \notin DOMAIN best_sites
  /\ best_sites' = SetSite("map_json_to_exif_xmp", BestMapJson(flat_metadata))
  /\ UNCHANGED <<pc, scanVars, manifestVars, jsonVars, flat_metadata, mainVars>>

\* embed_metadata_ffmpeg computes best_timestamp
FfmpegComputesBest ==
  /\ pc = "best"
  /\ "embed_metadata_ffmpeg" \notin DOMAIN best_sites
  /\ best_sites' = SetSite("embed_metadata_ffmpeg", BestFfmpeg(flat_metadata))
  /\ UNCHANGED <<pc, scanVars, manifestVars, jsonVars, flat_metadata, mainVars>>

\* main computes best_timestamp
MainComputesBest ==
  /\ pc = "best"
  /\ "main" \notin DOMAIN best_sites
  /\ best_sites' = SetSite("main", BestMain(flat_metadata))
  /\ UNCHANGED <<pc, scanVars, manifestVars, jsonVars, flat_metadata, mainVars>>

\* the flat mappings over the two timestamp keys
FlatTimestamps ==
  UNION {[D -> TimestampValues] :
           D \in SUBSET {photoTakenTime_timestamp, creationTime_timestamp}}

InitBest ==
  /\ pc = "best"
  /\ flat_metadata \in FlatTimestamps
  /\ best_sites = <<>>
  /\ listing = <<>>
  /\ ScanIdle
  /\ ManifestIdle
  /\ JsonIdle
  /\ MainIdle

NextBest == MapJsonComputesBest \/ FfmpegComputesBest \/ MainComputesBest

SpecBest == InitBest /\ [][NextBest]_vars

(***************************************************************************)
(* main: the loop over the pairs                                           *)
(***************************************************************************)
\* int(v) succeeds
CanInt(v) == v \in {"s:1000", "s:2000", "i:0"}

\* int(v)
IntOf(v) ==
  CASE v = "s:1000" -> 1000
    [] v = "s:2000" -> 2000
    [] OTHER -> 0

\* datetime.fromtimestamp(t).strftime(fmt): the text, and the instant it denotes
Strftime(fmt, t) == [fmt |-> fmt, t |-> t]

\* no date given to a sink
NoDate == [fmt |-> "", t |-> 0 - 1]

\* one write of the pair in hand
Write(sink, file, date) == [pair |-> pi, file |-> file, sink |-> sink, date |-> date]

\* lines 139-144: output_path of embed_metadata_ffmpeg
OutputPath(video_path) ==
  LET base == SplitExt(video_path)[1]
      ext == SplitExt(video_path)[2]
  IN IF Lower(ext) = <<".", "mov">>
     THEN base \o WithMeta \o <<".", "mp4">>
     ELSE base \o WithMeta \o ext

\* lines 240-253: get_finder_creation_date(filepath), when mdls prints a date
get_finder_creation_date(filepath) ==
  Strftime("%m/%d/%Y %H:%M:%S", fs_create[filepath])

\* line 278: the loop goes on to the next pair, and to line 314 after the last
Advance ==
  IF pi < Len(pairs)
  THEN pc' = "load" /\ pi' = pi + 1
  ELSE pc' = "manifest" /\ pi' = pi

\* lines 312-313: except Exception: the failure is logged
OnExceptionAbort ==
  /\ errors' = Append(errors, pi)
  /\ pc' = "aborted"
  /\ pi' = pi

OnException ==
  /\ errors' = Append(errors, pi)
  /\ Advance

\* the end of the try block is reached
Completed ==
  /\ errors' = errors
  /\ Advance

\* lines 267-269: no pairs, exit 0 without a manifest
MainNoPairs ==
  /\ pc = "scanned"
  /\ pairs = <<>>
  /\ pc' = "exit"
  /\ UNCHANGED <<scanVars, manifestVars, jsonVars, bestVars, mainVars>>

\* lines 271-278: the loop over the pairs begins
MainStartLoop ==
  /\ pc = "scanned"
  /\ pairs # <<>>
  /\ pc' = "load"
  /\ pi' = 1
  /\ UNCHANGED <<scanVars, manifestVars, jsonVars, bestVars>>
  /\ UNCHANGED <<sidecar_content, fs_create, exif_dto, attempted, errors, writes>>

\* lines 279-285: json.load, flatten_json, best_timestamp
LoadJson ==
  /\ pc = "load"
  /\ attempted' = Append(attempted, pi)
  /\ \E content \in {sidecar_content[Basename(pairs[pi][2])]} :
       IF ~content.ok
       THEN /\ OnException
            /\ UNCHANGED bestVars
       ELSE \E flattened \in {flatten_json(content.doc, <<>>)} :
              /\ flat_metadata' = flattened
              /\ best_sites' = [s \in {"main"} |-> BestMain(flattened)]
              /\ pc' = "embed"
              /\ UNCHANGED <<pi, errors>>
  /\ UNCHANGED <<scanVars, manifestVars, jsonVars>>
  /\ UNCHANGED <<sidecar_content, fs_create, exif_dto, writes>>

\* line 289, lines 110-119 and 60-107: embed_metadata on an image
EmbedImage ==
  /\ pc = "embed"
  /\ ~IsVideoExt(SplitExt(pairs[pi][1])[2])
  /\ LET image_path == pairs[pi][1]
         best_timestamp == BestMapJson(flat_metadata)
         date_str == Strftime("%Y:%m:%d %H:%M:%S", IntOf(best_timestamp))
     IN /\ best_sites' = SetSite("map_json_to_exif_xmp", best_timestamp)
        /\ IF Truthy(best_timestamp) /\ ~CanInt(best_timestamp)
           THEN /\ OnException
                /\ UNCHANGED <<exif_dto, writes>>
           ELSE \E outcome \in {"ok", "fail"} :
                  IF outcome = "fail"
                  THEN /\ OnException
                       /\ UNCHANGED <<exif_dto, writes>>
                  ELSE /\ IF Truthy(best_timestamp)
                          THEN /\ writes' = writes \cup
                                    {Write("EXIF:DateTimeOriginal", image_path, date_str),
                                     Write("XMP:CreateDate", image_path, date_str)}
                               /\ exif_dto' = [exif_dto EXCEPT ![image_path] = date_str]
                          ELSE /\ writes' = writes \cup {Write("tags", image_path, NoDate)}
                               /\ exif_dto' = exif_dto
                       /\ pc' = "fsdate"
                       /\ UNCHANGED <<pi, errors>>
  /\ UNCHANGED <<scanVars, manifestVars, jsonVars, flat_metadata>>
  /\ UNCHANGED <<sidecar_content, fs_create, attempted>>

\* line 287 and lines 121-158: embed_metadata_ffmpeg on a video
EmbedVideo ==
  /\ pc = "embed"
  /\ IsVideoExt(SplitExt(pairs[pi][1])[2])
  /\ \E video_path \in {pairs[pi][1]} :
     \E best_timestamp \in {BestFfmpeg(flat_metadata)} :
     \E output_path \in {OutputPath(video_path)} :
     \E created \in {IF Basename(output_path) \in Range(listing)
                     THEN listing
                     ELSE Append(listing, Basename(output_path))} :
       LET creation_time == IF Truthy(best_timestamp)
                            THEN Strftime("%Y-%m-%dT%H:%M:%S", IntOf(best_timestamp))
                            ELSE NoDate
           ffmpeg == Write("ffmpeg:creation_time", output_path, creation_time)
           orig_creation_date == get_finder_creation_date(video_path)
       IN /\ best_sites' = SetSite("embed_metadata_ffmpeg", best_timestamp)
          /\ IF Truthy(best_timestamp) /\ ~CanInt(best_timestamp)
             THEN /\ OnException
                  /\ UNCHANGED <<listing, fs_create, writes>>
             ELSE \E outcome \in {"ok", "ffmpeg fails", "mdls prints nothing",
                                   "SetFile fails"} :
                    CASE outcome = "ffmpeg fails" ->
                           /\ OnException
                           /\ UNCHANGED <<listing, fs_create, writes>>
                      [] outcome = "mdls prints nothing" ->
                           /\ listing' = created
                           /\ writes' = writes \cup {ffmpeg}
                           /\ pc' = "finder"
                           /\ UNCHANGED <<pi, errors, fs_create>>
                      [] outcome = "SetFile fails" ->
                           /\ OnException
                           /\ listing' = created
                           /\ writes' = writes \cup {ffmpeg}
                           /\ UNCHANGED fs_create
                      [] outcome = "ok" ->
                           /\ listing' = created
                           /\ writes' = writes \cup
                                {ffmpeg, Write("SetFile", output_path, orig_creation_date)}
                           /\ fs_create' =
                                [q \in DOMAIN fs_create \cup {output_path} |->
                                   IF q = output_path THEN orig_creation_date.t
                                   ELSE fs_create[q]]
                           /\ pc' = "finder"
                           /\ UNCHANGED <<pi, errors>>
  /\ UNCHANGED <<idx, pairs, missing_metadata, cross_probes>>
  /\ UNCHANGED <<manifestVars, jsonVars, flat_metadata>>
  /\ UNCHANGED <<sidecar_content, exif_dto, attempted>>

\* lines 292-299: exiftool -FileCreateDate<DateTimeOriginal, images only
FsDate ==
  /\ pc = "fsdate"
  /\ LET image_path == pairs[pi][1]
     IN \E outcome \in {"ok", "fail"} :
          IF outcome = "fail"
          THEN /\ OnException
               /\ UNCHANGED <<fs_create, writes>>
          ELSE /\ IF exif_dto[image_path] # NoDate
                  THEN /\ fs_create' =
                            [fs_create EXCEPT ![image_path] = exif_dto[image_path].t]
                       /\ writes' = writes \cup
                            {Write("FileCreateDate", image_path, exif_dto[image_path])}
                  ELSE UNCHANGED <<fs_create, writes>>
               /\ pc' = "finder"
               /\ UNCHANGED <<pi, errors>>
  /\ UNCHANGED <<scanVars, manifestVars, jsonVars, bestVars>>
  /\ UNCHANGED <<sidecar_content, exif_dto, attempted>>

\* lines 300-311: SetFile on a .png or .mp4 with a best timestamp
FinderDate ==
  /\ pc = "finder"
  /\ LET image_path == pairs[pi][1]
         ext == Lower(SplitExt(image_path)[2])
         best_timestamp == best_sites["main"]
         date_str == Strftime("%m/%d/%Y %H:%M:%S", IntOf(best_timestamp))
     IN IF ext \in {<<".", "png">>, <<".", "mp4">>} /\ Truthy(best_timestamp)
        THEN IF ~CanInt(best_timestamp)
             THEN /\ OnException
                  /\ UNCHANGED <<fs_create, writes>>
             ELSE \E outcome \in {"ok", "fail"} :
                    IF outcome = "fail"
                    THEN /\ OnException
                         /\ UNCHANGED <<fs_create, writes>>
                    ELSE /\ writes' = writes \cup {Write("SetFile", image_path, date_str)}
                         /\ fs_create' = [fs_create EXCEPT ![image_path] = date_str.t]
                         /\ Completed
        ELSE /\ Completed
             /\ UNCHANGED <<fs_create, writes>>
  /\ UNCHANGED <<scanVars, manifestVars, jsonVars, bestVars>>
  /\ UNCHANGED <<sidecar_content, exif_dto, attempted>>

\* a sidecar's JSON document with the given timestamps (None: the field is absent)
Doc(photo, creation) ==
  DictOf({<< <<"title">>, <<"leaf", "s:x">> >>}
    \cup (IF photo = None THEN {}
          ELSE {<< <<"photoTakenTime">>,
                   <<"obj", DictOf({<< <<"timestamp">>, <<"leaf", photo>> >>})>> >>})
    \cup (IF creation = None THEN {}
          ELSE {<< <<"creationTime">>,
                   <<"obj", DictOf({<< <<"timestamp">>, <<"leaf", creation>> >>})>> >>}))

\* what a sidecar file may hold: text json.load rejects, or a document
Contents ==
  {[ok |-> FALSE, doc |-> <<>>],
   [ok |-> TRUE, doc |-> Doc("s:1000", "s:2000")],
   [ok |-> TRUE, doc |-> Doc(None, None)],
   [ok |-> TRUE, doc |-> Doc("s:x", None)]}

\* the creation dates the file system may hold for the files before the run
OsDates == {5, 1000}

IsSidecarName(f) == EndsWith(f, SupplementalMetadata) \/ EndsWith(f, Suppl)

\* the entries a directory handed to main may hold
MainNames ==
  LET a == <<"a">>
  IN {a \o <<".", "jpg">>, a \o <<".", "png">>, a \o <<".", "mp4">>,
      a \o <<".", "mov">>,
      a \o <<".", "jpg">> \o Suppl, a \o <<".", "png">> \o SupplementalMetadata,
      a \o <<".", "mp4">> \o Suppl}

InitMain ==
  /\ pc = "scan"
  /\ listing \in ListingsOf(MainNames, MaxMainFiles)
  /\ ScanIdle
  /\ ManifestIdle
  /\ JsonIdle
  /\ BestIdle
  /\ sidecar_content \in [{f \in Range(listing) : IsSidecarName(f)} -> Contents]
  /\ \E d \in OsDates : fs_create = [q \in {Join(f) : f \in Range(listing)} |-> d]
  /\ exif_dto = [q \in {Join(f) : f \in Range(listing)} |-> NoDate]
  /\ pi = 0
  /\ attempted = <<>>
  /\ errors = <<>>
  /\ writes = {}

NextMain ==
  \/ ScanEntry
  \/ ScanReturn
  \/ MainNoPairs
  \/ MainStartLoop
  \/ LoadJson
  \/ EmbedImage
  \/ EmbedVideo
  \/ FsDate
  \/ FinderDate
  \/ GroupFile
  \/ AssignSlot
  \/ BuildRow
  \/ WriteCsv

SpecMain == InitMain /\ [][NextMain]_vars

\* the steps of main after find_image_json_pairs has returned
LoopNext ==
  \/ MainStartLoop
  \/ LoadJson
  \/ EmbedImage
  \/ EmbedVideo
  \/ FsDate
  \/ FinderDate
  \/ GroupFile
  \/ AssignSlot
  \/ BuildRow
  \/ WriteCsv

\* the directories of the runs whose progress is checked
FewNames ==
  LET a == <<"a">>
  IN {a \o <<".", "png">>, a \o <<".", "mp4">>, a \o <<".", "mov">>,
      a \o <<".", "png">> \o SupplementalMetadata, a \o <<".", "jpg">> \o Suppl}

FewContents ==
  {[ok |-> FALSE, doc |-> <<>>],
   [ok |-> TRUE, doc |-> Doc("s:1000", "s:2000")],
   [ok |-> TRUE, doc |-> Doc("s:x", None)]}

InitMainFew ==
  /\ pc = "scan"
  /\ listing \in ListingsOf(FewNames, MaxMainFiles)
  /\ ScanIdle
  /\ ManifestIdle
  /\ JsonIdle
  /\ BestIdle
  /\ sidecar_content \in [{f \in Range(listing) : IsSidecarName(f)} -> FewContents]
  /\ fs_create = [q \in {Join(f) : f \in Range(listing)} |-> 5]
  /\ exif_dto = [q \in {Join(f) : f \in Range(listing)} |-> NoDate]
  /\ pi = 0
  /\ attempted = <<>>
  /\ errors = <<>>
  /\ writes = {}

\* the run is sequential: once the pairs are found, nothing but the end of
\* main stops it
FairSpecMain == InitMainFew /\ [][NextMain]_vars /\ WF_vars(LoopNext)

(***************************************************************************)
(* Claims about find_image_json_pairs                                      *)
(***************************************************************************)
\* the media extensions of the specification, with their dots
MediaDotExts ==
  {<<".", "jpg">>, <<".", "jpeg">>, <<".", "png">>, <<".", "heic">>,
   <<".", "mp4">>, <<".", "mov">>}

HasMediaDotExt(file) == \E e \in MediaDotExts : EndsWith(Lower(file), e)

InDir(file) == file \in Range(listing)

\* the entries scanned so far
Scanned == {listing[i] : i \in 1..idx}

PairsOf(file) == {k \in DOMAIN pairs : pairs[k][1] = Join(file)}

HasDirect(file) ==
  InDir(file \o SupplementalMetadata) \/ InDir(file \o Suppl)

PreferredDirect(file) ==
  IF InDir(file \o SupplementalMetadata)
  THEN Join(file \o SupplementalMetadata)
  ELSE Join(file \o Suppl)

\* C1: every scanned media file with a direct sidecar has exactly one pair,
\* that pair holds the direct sidecar (.supplemental-metadata.json before
\* .suppl.json), and the cross-reference loop probed nothing for it.
C1_DirectDominates ==
  \A f \in Scanned :
    (HasMediaDotExt(f) /\ HasDirect(f)) =>
      /\ Cardinality(PairsOf(f)) = 1
      /\ \A k \in PairsOf(f) : pairs[k][2] = PreferredDirect(f)
      /\ ~\E pr \in cross_probes : pr[1] = f

\* the sibling-image sidecars of a base name, in the order of the
\* specification: extension list order, then naming-convention order
SiblingSidecars(base) ==
  << base \o <<".", "jpg">> \o SupplementalMetadata, base \o <<".", "jpg">> \o Suppl,
     base \o <<".", "jpeg">> \o SupplementalMetadata, base \o <<".", "jpeg">> \o Suppl,
     base \o <<".", "png">> \o SupplementalMetadata, base \o <<".", "png">> \o Suppl,
     base \o <<".", "heic">> \o SupplementalMetadata, base \o <<".", "heic">> \o Suppl >>

\* a video: a file whose extension (os.path.splitext) is .mp4 or .mov
IsVideoFile(file) == Lower(SplitExt(file)[2]) \in {<<".", "mp4">>, <<".", "mov">>}

HasSibling(file) ==
  \E k \in 1..8 : InDir(SiblingSidecars(SplitFirstDot(file))[k])

C1_Witness ==
  /\ pc = "scanned"
  /\ \E f \in Scanned :
       /\ IsVideoFile(f) /\ HasDirect(f) /\ HasSibling(f)
       /\ PairsOf(f) # {}

\* C2: a scanned video without a direct sidecar whose base name has a sibling
\* image sidecar is paired with the first such sidecar (extension order, then
\* convention order) and is not reported unmatched.
C2_CrossReference ==
  \A f \in Scanned :
    (IsVideoFile(f) /\ ~HasDirect(f) /\ HasSibling(f)) =>
      LET sib == SiblingSidecars(SplitFirstDot(f))
          first == CHOOSE k \in 1..8 :
                     InDir(sib[k]) /\ \A j \in 1..(k - 1) : ~InDir(sib[j])
      IN /\ Cardinality(PairsOf(f)) = 1
         /\ \A k \in PairsOf(f) : pairs[k][2] = Join(sib[first])
         /\ Join(f) \notin Range(missing_metadata)

\* two sibling sidecars exist, and the sibling image itself does not
C2_Witness ==
  /\ pc = "scanned"
  /\ \E f \in Scanned :
       /\ IsVideoFile(f) /\ ~HasDirect(f)
       /\ PairsOf(f) # {}
       /\ Cardinality({k \in 1..8 : InDir(SiblingSidecars(SplitFirstDot(f))[k])}) = 2
       /\ \A e \in {<<".", "jpg">>, <<".", "jpeg">>, <<".", "png">>, <<".", "heic">>} :
            ~InDir(SplitFirstDot(f) \o e)

\* C6 as stated: no sidecar is the second component of two pairs with
\* different media paths.
C6_SidecarOfOneMedia ==
  \A i, j \in DOMAIN pairs :
    pairs[i][2] = pairs[j][2] => pairs[i][1] = pairs[j][1]

IsDirectPair(k) ==
  pairs[k][2] \in {pairs[k][1] \o SupplementalMetadata, pairs[k][1] \o Suppl}

\* C6 amended: of the pairs that share a sidecar at most one is a direct
\* match; every other one is a video without a direct sidecar, matched by
\* cross-reference to a sibling image's sidecar.
C6_SharedOnlyByCrossReference ==
  \A i, j \in DOMAIN pairs :
    (i # j /\ pairs[i][2] = pairs[j][2]) =>
      /\ pairs[i][1] # pairs[j][1]
      /\ ~(IsDirectPair(i) /\ IsDirectPair(j))
      /\ \A k \in {i, j} :
           ~IsDirectPair(k) =>
             /\ IsVideoFile(Basename(pairs[k][1]))
             /\ ~HasDirect(Basename(pairs[k][1]))
             /\ \E n \in 1..8 :
                  pairs[k][2] =
                    Join(SiblingSidecars(SplitFirstDot(Basename(pairs[k][1])))[n])

C6_Witness ==
  /\ pc = "scanned"
  /\ \E i, j \in DOMAIN pairs :
       /\ pairs[i][2] = pairs[j][2]
       /\ pairs[i][1] # pairs[j][1]
       /\ IsDirectPair(i)
       /\ ~IsDirectPair(j)

\* C10 as stated: an entry ending in .heic is in neither pairs nor
\* missing_metadata.
C10_HeicNeverMatched ==
  \A f \in Scanned :
    EndsWith(Lower(f), <<".", "heic">>) =>
      /\ PairsOf(f) = {}
      /\ Join(f) \notin Range(missing_metadata)

\* C10 amended: an entry whose name ends in heic, with or without the dot,
\* passes the supported-extension check: it is paired with its direct sidecar
\* when it has one and is reported in missing_metadata otherwise.
C10_HeicMatched ==
  \A f \in Scanned :
    EndsWith(Lower(f), <<"heic">>) =>
      IF HasDirect(f)
      THEN /\ Cardinality(PairsOf(f)) = 1
           /\ \A k \in PairsOf(f) : pairs[k][2] = PreferredDirect(f)
           /\ Join(f) \notin Range(missing_metadata)
      ELSE /\ PairsOf(f) = {}
           /\ Join(f) \in Range(missing_metadata)

C10_Witness ==
  /\ pc = "scanned"
  /\ \E f \in Scanned :
       /\ EndsWith(Lower(f), <<".", "heic">>)
       /\ HasDirect(f)
       /\ PairsOf(f) # {}

(***************************************************************************)
(* Claims about create_csv_manifest                                        *)
(***************************************************************************)
SlotNames == {"image", "video", "video_withmeta", "metadata"}

\* the derived base name of the specification
DerivedBase(f) ==
  LET first == IF \E i \in DOMAIN f : f[i] = "."
               THEN SubSeq(f, 1, (CHOOSE i \in DOMAIN f :
                                    f[i] = "." /\ \A j \in 1..(i - 1) : f[j] # ".") - 1)
               ELSE f
  IN IF first # <<>> /\ first[Len(first)] = "_withmeta"
     THEN SubSeq(first, 1, Len(first) - 1)
     ELSE first

SlotOf(row, slot) ==
  CASE slot = "image" -> row.image
    [] slot = "video" -> row.video
    [] slot = "video_withmeta" -> row.video_withmeta
    [] slot = "metadata" -> row.metadata

IndexIn(f) == CHOOSE i \in DOMAIN listing : listing[i] = f

\* C5: at most one row per derived base name; every row has a non-empty slot;
\* every file in a slot is a listing entry of the row's base name and sits
\* in one slot only; of the entries of a group that claim a slot the one
\* latest in the listing holds it.
C5_ManifestRows ==
  pc = "done" =>
    /\ \A i, j \in DOMAIN rows : rows[i].base_name = rows[j].base_name => i = j
    /\ \A i \in DOMAIN rows :
         /\ \E s \in SlotNames : SlotOf(rows[i], s) # <<>>
         /\ \A s \in SlotNames :
              LET f == SlotOf(rows[i], s)
              IN f # <<>> =>
                   /\ f \in Range(listing)
                   /\ DerivedBase(f) = rows[i].base_name
                   /\ \A t \in SlotNames \ {s} : SlotOf(rows[i], t) # f
                   /\ Slot(f) = s
                   /\ \A g \in Range(listing) :
                        (DerivedBase(g) = rows[i].base_name /\ Slot(g) = s)
                          => IndexIn(g) <= IndexIn(f)

\* two entries of one group claim the image slot
C5_Witness ==
  /\ pc = "done"
  /\ \E i \in DOMAIN rows :
       \E g \in Range(listing) :
         /\ rows[i].image # <<>>
         /\ g # rows[i].image
         /\ DerivedBase(g) = rows[i].base_name
         /\ Slot(g) = "image"

(***************************************************************************)
(* Claims about flatten_json                                               *)
(***************************************************************************)
\* key.split('_')
RECURSIVE SplitUnderscore(_)
SplitUnderscore(k) ==
  IF \A i \in DOMAIN k : k[i] # "_" THEN <<k>>
  ELSE LET i == CHOOSE i \in DOMAIN k : k[i] = "_" /\ \A j \in 1..(i - 1) : k[j] # "_"
       IN <<SubSeq(k, 1, i - 1)>> \o SplitUnderscore(SubSeq(k, i + 1, Len(k)))

\* the object whose leaves are the entries <<path, value>>
RECURSIVE Build(_)
Build(P) ==
  [h \in {p[1][1] : p \in P} |->
     LET sub == {p \in P : p[1][1] = h}
     IN IF \E p \in sub : Len(p[1]) = 1
        THEN <<"leaf", (CHOOSE p \in sub : Len(p[1]) = 1)[2]>>
        ELSE <<"obj", Build({<<Tail(p[1]), p[2]>> : p \in sub})>>]

\* re-nesting: every flat key split on '_'
Renest(f) == Build({<<SplitUnderscore(k), f[k]>> : k \in DOMAIN f})

RECURSIVE NoEmptyNested(_)
NoEmptyNested(obj) ==
  \A k \in DOMAIN obj :
    IsDict(obj[k]) => (DOMAIN obj[k][2] # {} /\ NoEmptyNested(obj[k][2]))

\* C8 as stated: flattening then re-nesting gives back the input, empty
\* nested objects included.
C8_RoundTripAlways ==
  pc = "flattened" => Renest(flat) = y

\* C8 amended: flattening then re-nesting gives back the input when no
\* nested object is empty, and does not when one is.
C8_RoundTripNonEmpty ==
  pc = "flattened" => (Renest(flat) = y <=> NoEmptyNested(y))

C8_Witness ==
  /\ pc = "flattened"
  /\ \E k \in DOMAIN y : IsDict(y[k]) /\ DOMAIN y[k][2] # {}
  /\ \E k \in DOMAIN y : ~IsDict(y[k])
  /\ NoEmptyNested(y)
  /\ Renest(flat) = y

(***************************************************************************)
(* Claims about best_timestamp                                             *)
(***************************************************************************)
BestSites == {"map_json_to_exif_xmp", "embed_metadata_ffmpeg", "main"}

\* C4 as stated: the value under photoTakenTime_timestamp whenever the key
\* is present, else the value under creationTime_timestamp when that key is
\* present, else absent; the same at every call site.
C4_BestIsPhotoWhenPresent ==
  \A s \in DOMAIN best_sites :
    best_sites[s] =
      IF photoTakenTime_timestamp \in DOMAIN flat_metadata
        THEN flat_metadata[photoTakenTime_timestamp]
      ELSE IF creationTime_timestamp \in DOMAIN flat_metadata
        THEN flat_metadata[creationTime_timestamp]
      ELSE None

\* a value Python treats as true: not null, not the empty string, not zero
IsTrue(v) == v # None /\ v # "s:" /\ v # "i:0"

\* C4 amended: the value under photoTakenTime_timestamp when the key is
\* present with a true value, else the value under creationTime_timestamp
\* when that key is present, else absent; the same at every call site.
C4_BestIsPhotoWhenTrue ==
  \A s \in DOMAIN best_sites :
    best_sites[s] =
      IF /\ photoTakenTime_timestamp \in DOMAIN flat_metadata
         /\ IsTrue(flat_metadata[photoTakenTime_timestamp])
        THEN flat_metadata[photoTakenTime_timestamp]
      ELSE IF creationTime_timestamp \in DOMAIN flat_metadata
        THEN flat_metadata[creationTime_timestamp]
      ELSE None

C4_Witness ==
  /\ DOMAIN best_sites = BestSites
  /\ DOMAIN flat_metadata = {photoTakenTime_timestamp, creationTime_timestamp}
  /\ flat_metadata[photoTakenTime_timestamp] = "s:1000"
  /\ flat_metadata[creationTime_timestamp] = "s:2000"
  /\ \A s \in BestSites : best_sites[s] = "s:1000"

(***************************************************************************)
(* Claims about main                                                       *)
(***************************************************************************)
\* C3: with at least one pair, every pair is attempted, in the order of the
\* pairs list; a failure ends that pair only and the loop goes on with the
\* next pair or the manifest; create_csv_manifest is always reached.
C3_AllPairsThenManifest ==
  /\ [](pc \in {"manifest", "done"} => attempted = [i \in 1..Len(pairs) |-> i])
  /\ [][Len(errors') > Len(errors) =>
          \/ pc' = "load" /\ pi' = pi + 1
          \/ pc' = "manifest" /\ pi = Len(pairs)]_vars
  /\ (pc = "scanned" /\ pairs # <<>>) ~> (pc = "done")

\* the first pair failed, the second was processed, the manifest is written
C3_Witness ==
  /\ pc = "done"
  /\ Len(pairs) >= 2
  /\ 1 \in Range(errors)
  /\ 2 \notin Range(errors)
  /\ \E w \in writes : w.pair = 2
  /\ rows # <<>>

\* BestTimestamp of pair p, from its sidecar
BestOfPair(p) ==
  LET content == sidecar_content[Basename(pairs[p][2])]
      fm == flatten_json(content.doc, <<>>)
  IN IF photoTakenTime_timestamp \in DOMAIN fm /\ IsTrue(fm[photoTakenTime_timestamp])
       THEN fm[photoTakenTime_timestamp]
     ELSE IF creationTime_timestamp \in DOMAIN fm
       THEN fm[creationTime_timestamp]
     ELSE None

\* pair p was processed to the end of the try block
CompletedPair(p) ==
  /\ p \in Range(attempted)
  /\ p \notin Range(errors)
  /\ (p < pi \/ pc \in {"manifest", "done"})

EpochOf(v) == IF v = "s:1000" THEN 1000 ELSE IF v = "s:2000" THEN 2000 ELSE 0

\* C7: every date written for a pair that completed and has a BestTimestamp
\* denotes the instant of that BestTimestamp.
C7_AllDatesFromBest ==
  \A p \in DOMAIN pairs :
    (CompletedPair(p) /\ IsTrue(BestOfPair(p))) =>
      \A w \in writes :
        (w.pair = p /\ w.date.fmt # "") => w.date.t = EpochOf(BestOfPair(p))

\* C9: no file is written by two pairs, and no pair writes another pair's
\* media file.
C9_NoFileWrittenByTwoPairs ==
  /\ \A w1, w2 \in writes : w1.file = w2.file => w1.pair = w2.pair
  /\ \A w \in writes : \A q \in DOMAIN pairs :
       w.file = pairs[q][1] => pairs[q][1] = pairs[w.pair][1]

====
